---- MODULE Spec2Model ----
(***************************************************************************)
(* Host side of the pico-keyboard time tracker (tracker.py): the           *)
(* TimeTracker log (one CSV file per local date), the main loop with its   *)
(* connect / read / dispatch / cleanup steps, the layered KEYMAP and the   *)
(* sleep-inhibitor subprocess handle.                                      *)
(*                                                                         *)
(* One action is one pass of the `while not user_requested_exit` loop (or  *)
(* the cleanup that follows it).  The wall clock is an integer number of   *)
(* seconds; a day has DayLen seconds, so the date of clock reading t is    *)
(* t \div DayLen and the file times.YYMMDD.csv is keyed by that date.      *)
(*                                                                         *)
(* Spec is the program over several runs on a link that carries every      *)
(* command, SpecSend one run on a link whose writes can fail, SpecReport   *)
(* the program started on an existing log with show_today's derivation     *)
(* recorded, SpecSort the ordering of show_today's summary.                *)
(***************************************************************************)
EXTENDS Integers, Sequences, FiniteSets, TLC

\* ---------------------------------------------------------------- bounds
MaxNow == 2
DayLen == 2
MaxEntries == 2

\* ------------------------------------------------------------- constants
None == "None"
STOP == "STOP"
DefaultLabel == "Allgemein"
ShiftButton == 9
Off == <<0, 0, 0>>
Green == <<0, 255, 0>>
Yellow == <<255, 255, 0>>
Blue == <<0, 0, 255>>

KeyAction(a) == [action |-> a, label |-> "", color |-> <<>>]
KeyProject(l, c) == [action |-> "project", label |-> l, color |-> c]

KEYMAP ==
  (0 :> (  1 :> KeyAction("tracking_toggle")
        @@ 2 :> KeyProject("Support", <<255, 255, 0>>)
        @@ 3 :> KeyProject("Meeting", <<255, 100, 0>>)
        @@ 4 :> KeyProject("Project 1", <<0, 255, 0>>)
        @@ 5 :> KeyProject("Project 2", <<0, 0, 255>>)
        @@ 6 :> KeyProject("Project 3", <<255, 0, 255>>)
        @@ 7 :> KeyProject("Project 4", <<255, 0, 128>>)
        @@ 8 :> KeyAction("show_today")
        @@ 9 :> KeyAction("layer_shift")))
  @@
  (1 :> (  1 :> KeyProject("Project 5", <<128, 255, 0>>)
        @@ 2 :> KeyProject("Project 6", <<0, 255, 128>>)
        @@ 3 :> KeyProject("Project 7", <<128, 0, 255>>)
        @@ 4 :> KeyProject("Project 8", <<255, 128, 0>>)
        @@ 5 :> KeyProject("Project 9", <<0, 128, 255>>)
        @@ 6 :> KeyProject("Project 10", <<255, 192, 0>>)
        @@ 7 :> KeyProject("Project 11", <<192, 0, 255>>)
        @@ 8 :> KeyAction("prevent_sleep")
        @@ 9 :> KeyAction("layer_shift")))

\* Button numbers the device sends in the explored runs: the toggle (layer 0)
\* or a project (layer 1), show_today / prevent_sleep, the shift button, and
\* one number no layer maps.
Buttons == {1, 8, 9, 10}

VARIABLES
  pc,                \* "run" | "exiting" (user_requested_exit set) | "done" (after
                     \* cleanup) | "crashed" (uncaught exception)
  ser,               \* "none" | "open"
  layer,
  prevent_sleep,
  caffeinate_proc,   \* None | "proc"
  live,              \* inhibitor subprocesses spawned by this run and not terminated
  current_task,
  current_csv_file,  \* date of the file the tracker last resolved
  files,             \* date -> sequence of <<timestamp, label>> rows (header implied)
  now,               \* wall clock, seconds
  cmds,              \* indicator commands issued by the last step, in order
  written,           \* dates whose file this run of the program has appended a row to
  ev,                \* the last step: [op, btn, ok]
  send_failed,       \* some safe_send of the last step returned False
  session_seen,      \* this run of the program has opened the port at least once
  report,            \* what the last show_today computed: entries, per_label, total
  labels,            \* keys of a per_label dict, in insertion order
  summary,           \* those keys in the order the summary prints them
  probe,             \* one call of find_pico_port: the ports, the filter, the result
  pico,              \* the firmware: its button arrays, its clock, the lines it wrote
  wire,              \* lines the device wrote that the host has not read yet
  calib,             \* one run of calibrate_keymap.py
  panel              \* the indicators as this session's commands have set them

vars == <<pc, ser, layer, prevent_sleep, caffeinate_proc, live, current_task,
          current_csv_file, files, now, cmds, written, ev, send_failed,
          session_seen, report, labels, summary, probe, pico, wire, calib,
          panel>>

\* what show_today derives; no main-loop pass other than its own touches it
views == <<report, labels, summary, probe, pico, wire, calib>>

\* the tracker's collaborators: discovery, the firmware and its lines, calibration
tools == <<probe, pico, wire, calib>>

\* a collaborator that is not part of the run
Idle == /\ probe = None /\ pico = None /\ wire = <<>> /\ calib = None

\* The indicators the tracker keeps in step with its state: tracking (LED 0),
\* sleep (LED 1), layer (LED 7).  panel holds the ones that the commands
\* issued since the port was opened have last set to a colour other than
\* 0,0,0: the state the tracker has commanded, which is the state of the
\* device as long as no write of the session failed.  Without a session
\* nothing is commanded; what an earlier session left on is cleared by the
\* first command of the next one.
Indicators == {"0", "1", "7"}

NoPanel == {}

\* what the firmware does with one command (parse_host_command)
Shown(lit, c) ==
  IF c.led = "STOP" THEN lit
  ELSE IF c.led = "ALL" THEN (IF c.rgb = <<0, 0, 0>> THEN {} ELSE Indicators)
  ELSE IF c.led \notin Indicators THEN lit
  ELSE IF c.rgb = <<0, 0, 0>> THEN lit \ {c.led} ELSE lit \cup {c.led}

\* the panel after the commands of one pass
RECURSIVE ShownFrom(_, _, _)
ShownFrom(lit, sent, k) ==
  IF k > Len(sent) THEN lit
  ELSE ShownFrom(Shown(lit, sent[k]), sent, k + 1)

\* ------------------------------------------------------- indicator commands
LedAll(c) == [led |-> "ALL", rgb |-> c]
Led(i, c) == [led |-> ToString(i), rgb |-> c]
LedStop == [led |-> "STOP", rgb |-> <<>>]

\* ------------------------------------------------------------ TimeTracker
Truthy(x) == x /= None /\ x /= ""

get_csv_filename(t) == t \div DayLen

Tracker(task, file, fs) == [task |-> task, file |-> file, files |-> fs]

\* variant: the file is opened for writing without the os.path.exists test
ensure_csv_file_truncating(T, t) ==
  LET f == get_csv_filename(t)
  IN [T EXCEPT !.file = f,
               !.files = [d \in DOMAIN T.files \cup {f} |->
                            IF d = f THEN <<>> ELSE T.files[d]]]

ensure_csv_file(T, t) ==
  LET f == get_csv_filename(t)
  IN [T EXCEPT !.file = f,
               !.files = IF f \in DOMAIN T.files THEN T.files
                         ELSE T.files @@ (f :> <<>>)]

\* variant: the `last_label != "STOP"` test is missing
restore_state_keeping_stop(T) ==
  IF T.file \notin DOMAIN T.files THEN T
  ELSE LET rows == T.files[T.file]
           last_label == IF Len(rows) = 0 THEN None ELSE rows[Len(rows)][2]
       IN IF Truthy(last_label)
          THEN [T EXCEPT !.task = last_label]
          ELSE T

restore_state(T) ==
  IF T.file \notin DOMAIN T.files THEN T
  ELSE LET rows == T.files[T.file]
           last_label == IF Len(rows) = 0 THEN None ELSE rows[Len(rows)][2]
       IN IF Truthy(last_label) /\ last_label /= STOP
          THEN [T EXCEPT !.task = last_label]
          ELSE T

TimeTrackerInit(fs, t) == restore_state(ensure_csv_file(Tracker(None, None, fs), t))

\* variant: the file name is resolved once, at construction
check_day_change_never(T, t) == T

check_day_change(T, t) ==
  IF get_csv_filename(t) /= T.file
  THEN ensure_csv_file([T EXCEPT !.file = get_csv_filename(t)], t)
  ELSE T

\* variant: current_task is not assigned
start_task_forgetting(T, label, t1, t2, ok) ==
  LET T1 == check_day_change(T, t1)
  IN IF ok THEN [T1 EXCEPT !.files[T1.file] = Append(@, <<t2, label>>)]
     ELSE T1

\* t1: the clock when the file name is resolved, t2: the clock at the
\* following datetime.now(); ok = FALSE: the append raises OSError.
start_task(T, label, t1, t2, ok) ==
  LET T1 == check_day_change(T, t1)
      T2 == [T1 EXCEPT !.task = label]
  IN IF ok THEN [T2 EXCEPT !.files[T2.file] = Append(@, <<t2, label>>)]
     ELSE T2

stop_task(T, t1, t2, ok) ==
  IF T.task = None THEN T
  ELSE LET T1 == check_day_change(T, t1)
       IN IF ok THEN [T1 EXCEPT !.files[T1.file] = Append(@, <<t2, STOP>>),
                                !.task = None]
          ELSE T1

\* stop_task returns at once, without touching the disk, when no task is set
StopRaises(T, ok) == T.task /= None /\ ~ok

\* ------------------------------------------------------------------ main
\* The locals of main() that a loop pass reads and writes, with the tracker
\* and the disk: H.raised is set when the pass left the try block through
\* `except (SerialException, OSError)`, H.exit is user_requested_exit.
\* H.fail is what the pass meets on the link: the positions, among the
\* commands it sends, at which ser.write / ser.flush raises; H.failed is set
\* once a safe_send has returned False.
Host(l, ps, cp, lv, T, s) ==
  [layer |-> l, prevent_sleep |-> ps, caffeinate_proc |-> cp, live |-> lv,
   T |-> T, ser |-> s, cmds |-> <<>>, raised |-> FALSE, exit |-> FALSE,
   fail |-> {}, failed |-> FALSE]

\* variant: the exception of a failed write is not caught
safe_send_raising(H, c) ==
  IF Len(H.cmds) + 1 \in H.fail
  THEN [H EXCEPT !.cmds = Append(@, c), !.failed = TRUE,
                 !.ser = "none", !.raised = TRUE]
  ELSE [H EXCEPT !.cmds = Append(@, c)]

\* try: ser.write; ser.flush; return True / except: return False
safe_send(H, c) ==
  [H EXCEPT !.cmds = Append(@, c),
            !.failed = @ \/ (Len(H.cmds) + 1 \in H.fail)]

\* variant: the handler closes the port but keeps the handle
connection_lost_keeping_handle(H) == [H EXCEPT !.ser = "closed", !.raised = TRUE]

\* except (SerialException, OSError): ser.close(); ser = None
connection_lost(H) == [H EXCEPT !.ser = "none", !.raised = TRUE]

\* variant: the reconnect does not show a running task
resync_forgetting_task(H) ==
  LET H0 == safe_send(H, LedAll(Off))
      H2 == IF H0.layer = 1 THEN safe_send(H0, Led(7, Yellow)) ELSE H0
  IN IF H2.prevent_sleep THEN safe_send(H2, Led(1, Blue)) ELSE H2

\* variant: the reconnect starts the inhibitor again when the flag is on
resync_respawning(H) ==
  LET H0 == safe_send(H, LedAll(Off))
      H1 == IF Truthy(H0.T.task) THEN safe_send(H0, Led(0, Green)) ELSE H0
      H2 == IF H1.layer = 1 THEN safe_send(H1, Led(7, Yellow)) ELSE H1
  IN IF H2.prevent_sleep
     THEN safe_send([H2 EXCEPT !.caffeinate_proc = "proc", !.live = @ + 1],
                    Led(1, Blue))
     ELSE H2

\* commands sent right after the port is opened (tracker.py 516-525)
resync(H) ==
  LET H0 == safe_send(H, LedAll(Off))
      H1 == IF Truthy(H0.T.task) THEN safe_send(H0, Led(0, Green)) ELSE H0
      H2 == IF H1.layer = 1 THEN safe_send(H1, Led(7, Yellow)) ELSE H1
  IN IF H2.prevent_sleep THEN safe_send(H2, Led(1, Blue)) ELSE H2

\* variant: the flag is set instead of flipped
do_prevent_sleep_always_on(H, spawn_ok) ==
  LET H0 == [H EXCEPT !.prevent_sleep = TRUE]
  IN IF spawn_ok
     THEN safe_send([H0 EXCEPT !.caffeinate_proc = "proc", !.live = @ + 1],
                    Led(1, Blue))
     ELSE connection_lost(H0)

\* action == "prevent_sleep"; spawn_ok = FALSE: subprocess.Popen raises OSError
do_prevent_sleep(H, spawn_ok) ==
  LET H0 == [H EXCEPT !.prevent_sleep = ~H.prevent_sleep]
  IN IF H0.prevent_sleep
     THEN IF spawn_ok
          THEN safe_send([H0 EXCEPT !.caffeinate_proc = "proc", !.live = @ + 1],
                         Led(1, Blue))
          ELSE connection_lost(H0)
     ELSE LET H1 == IF H0.caffeinate_proc /= None
                    THEN [H0 EXCEPT !.caffeinate_proc = None, !.live = @ - 1]
                    ELSE H0
          IN safe_send(H1, Led(1, Off))

\* variant: the active branch only switches the LEDs off
do_tracking_toggle_unlogged(H, t1, t2, ok) ==
  IF Truthy(H.T.task)
  THEN safe_send(safe_send(safe_send([H EXCEPT !.T.task = None],
         LedStop), Led(0, Off)), Led(2, Off))
  ELSE IF ~ok
       THEN connection_lost([H EXCEPT !.T = start_task(H.T, DefaultLabel, t1, t2, ok)])
       ELSE safe_send(safe_send(
              [H EXCEPT !.T = start_task(H.T, DefaultLabel, t1, t2, ok)],
              Led(0, Green)), Led(2, Green))

\* action == "tracking_toggle"
do_tracking_toggle(H, t1, t2, ok) ==
  IF Truthy(H.T.task)
  THEN IF StopRaises(H.T, ok)
       THEN connection_lost([H EXCEPT !.T = stop_task(H.T, t1, t2, ok)])
       ELSE safe_send(safe_send(safe_send(
              [H EXCEPT !.T = stop_task(H.T, t1, t2, ok)],
              LedStop), Led(0, Off)), Led(2, Off))
  ELSE IF ~ok
       THEN connection_lost([H EXCEPT !.T = start_task(H.T, DefaultLabel, t1, t2, ok)])
       ELSE safe_send(safe_send(
              [H EXCEPT !.T = start_task(H.T, DefaultLabel, t1, t2, ok)],
              Led(0, Green)), Led(2, Green))

\* variant: the active task is stopped first, as the toggle does
do_project_stop_first(H, config, t1, t2, ok) ==
  IF ~ok
  THEN connection_lost([H EXCEPT !.T = start_task(H.T, config.label, t1, t2, ok)])
  ELSE safe_send(safe_send(safe_send(
         [H EXCEPT !.T = start_task(stop_task(H.T, t1, t2, ok),
                                    config.label, t1, t2, ok)],
         LedStop), Led(0, Green)), Led(2, config.color))

\* action == "project"
do_project(H, config, t1, t2, ok) ==
  IF ~ok
  THEN connection_lost([H EXCEPT !.T = start_task(H.T, config.label, t1, t2, ok)])
  ELSE safe_send(safe_send(safe_send(
         [H EXCEPT !.T = start_task(H.T, config.label, t1, t2, ok)],
         LedStop), Led(0, Green)), Led(2, config.color))

\* variant: the indicator test reads the layer before the flip
do_layer_shift_stale_led(H) ==
  LET H0 == [H EXCEPT !.layer = IF H.layer = 0 THEN 1 ELSE 0]
  IN IF H.layer = 1 THEN safe_send(H0, Led(7, Yellow))
     ELSE safe_send(H0, Led(7, Off))

\* action == "layer_shift"
do_layer_shift(H) ==
  LET H0 == [H EXCEPT !.layer = IF H.layer = 0 THEN 1 ELSE 0]
  IN IF H0.layer = 1 THEN safe_send(H0, Led(7, Yellow))
     ELSE safe_send(H0, Led(7, Off))

\* variant: a button the layer does not map is handled as button 1
lookup_defaulting(l, b) ==
  IF l \in DOMAIN KEYMAP /\ b \in DOMAIN KEYMAP[l] THEN KEYMAP[l][b]
  ELSE KEYMAP[0][1]

\* KEYMAP.get(layer, {}).get(btn_num, None)
lookup(l, b) ==
  IF l \in DOMAIN KEYMAP /\ b \in DOMAIN KEYMAP[l] THEN KEYMAP[l][b]
  ELSE KeyAction(None)

\* the body of the loop for a decoded short press of button b
dispatch(H, b, t1, t2, ok, spawn_ok) ==
  LET config == lookup(H.layer, b)
  IN IF config.action = None THEN H
     ELSE CASE config.action = "prevent_sleep" -> do_prevent_sleep(H, spawn_ok)
            [] config.action = "tracking_toggle" -> do_tracking_toggle(H, t1, t2, ok)
            [] config.action = "project" -> do_project(H, config, t1, t2, ok)
            [] config.action = "layer_shift" -> do_layer_shift(H)
            [] OTHER -> H

\* the code after the loop; H.raised: tracker.stop_task() raised and nothing
\* after it ran
cleanup(H, t1, t2, ok) ==
  IF StopRaises(H.T, ok)
  THEN [H EXCEPT !.T = stop_task(H.T, t1, t2, ok), !.raised = TRUE]
  ELSE LET H0 == [H EXCEPT !.T = stop_task(H.T, t1, t2, ok)]
           H1 == IF H0.ser /= "none"
                 THEN [safe_send(safe_send(H0, LedStop), LedAll(Off))
                         EXCEPT !.ser = "closed"]
                 ELSE H0
       IN IF H1.caffeinate_proc /= None
          THEN [H1 EXCEPT !.live = @ - 1]
          ELSE H1

\* ------------------------------------------------------------ the machine
TotalEntries(fs) ==
  LET RECURSIVE sum(_)
      sum(D) == IF D = {} THEN 0
                ELSE LET d == CHOOSE x \in D : TRUE
                     IN Len(fs[d]) + sum(D \ {d})
  IN sum(DOMAIN fs)

\* the dates whose file has more rows in gs than in fs
Grown(fs, gs) ==
  {d \in DOMAIN gs : Len(gs[d]) > (IF d \in DOMAIN fs THEN Len(fs[d]) ELSE 0)}

\* the clock readings one call can see: the second of the file-name
\* resolution and, at the datetime.now() that follows, the same or the next
Later(t) == {u \in {t, t + 1} : u <= MaxNow}

Event(op, b, ok) == [op |-> op, btn |-> b, ok |-> ok]

CurrentHost ==
  Host(layer, prevent_sleep, caffeinate_proc, live,
       Tracker(current_task, current_csv_file, files), ser)

\* the primed variables from the record a loop pass ends with
Becomes(H) ==
  /\ layer' = H.layer
  /\ prevent_sleep' = H.prevent_sleep
  /\ caffeinate_proc' = H.caffeinate_proc
  /\ live' = H.live
  /\ current_task' = H.T.task
  /\ current_csv_file' = H.T.file
  /\ files' = H.T.files
  /\ ser' = H.ser
  /\ cmds' = H.cmds
  /\ send_failed' = H.failed
  /\ session_seen' = (session_seen \/ H.ser = "open")
  /\ written' = written \cup Grown(files, H.T.files)
  /\ panel' = IF H.ser /= "open" THEN NoPanel
             ELSE ShownFrom(IF ser = "open" THEN panel ELSE NoPanel, H.cmds, 1)

\* nothing reported yet
NoReport == [entries |-> <<>>, per_label |-> <<>>, total |-> 0]

Init ==
  LET T == TimeTrackerInit(<<>>, 0)
  IN /\ pc = "run"
     /\ ser = "none"
     /\ layer = 0
     /\ prevent_sleep = FALSE
     /\ caffeinate_proc = None
     /\ live = 0
     /\ current_task = T.task
     /\ current_csv_file = T.file
     /\ files = T.files
     /\ now = 0
     /\ cmds = <<>>
     /\ panel = NoPanel
     /\ written = {}
     /\ ev = Event("start", 0, TRUE)
     /\ send_failed = FALSE
     /\ session_seen = FALSE
     /\ report = NoReport
     /\ labels = <<>>
     /\ summary = <<>>
     /\ Idle

\* What the link does to the n commands of one pass: every write goes
\* through, or (lossy) the writes at any of the positions raise.  A failed
\* write is swallowed, so n does not depend on which ones fail.
Link(lossy, n) == IF lossy THEN SUBSET (1..n) ELSE {{}}

\* ser is None: find_pico_port and serial.Serial succeed, the LEDs are reset
Open(lossy) ==
  /\ pc = "run" /\ ser = "none"
  /\ \E H0 \in {CurrentHost} :
     \E fail \in Link(lossy, Len(resync(H0).cmds)) :
     \E H \in {resync([H0 EXCEPT !.ser = "open", !.fail = fail])} :
       Becomes(H)
  /\ ev' = Event("connect", 0, TRUE)
  /\ UNCHANGED <<pc, now>>

\* no line is waiting when the port opens, so reset_input_buffer drops none
Connect(lossy) == Open(lossy) /\ UNCHANGED views

\* variant: a failed discovery ends the program
DiscoveryFatal ==
  /\ pc = "run" /\ ser = "none"
  /\ pc' = "crashed"
  /\ Becomes(CurrentHost)
  /\ ev' = Event("discovery_failed", 0, FALSE)
  /\ UNCHANGED <<now, views>>

\* ser is None: find_pico_port raises RuntimeError; sleep and retry
ConnectDiscoveryFails ==
  /\ pc = "run" /\ ser = "none"
  /\ Becomes(CurrentHost)
  /\ ev' = Event("discovery_failed", 0, FALSE)
  /\ UNCHANGED <<pc, now, views>>

\* ser is None: serial.Serial (or a buffer reset) raises SerialException, which
\* neither `except RuntimeError` nor `except KeyboardInterrupt` catches
ConnectOpenFails ==
  /\ pc = "run" /\ ser = "none"
  /\ pc' = "crashed"
  /\ Becomes(CurrentHost)
  /\ ev' = Event("open_failed", 0, FALSE)
  /\ UNCHANGED <<now, views>>

\* a line that does not start with "BTN:"
ReadOther ==
  /\ pc = "run" /\ ser = "open"
  /\ Becomes(CurrentHost)
  /\ ev' = Event("other_line", 0, TRUE)
  /\ UNCHANGED <<pc, now, views>>

\* "BTN:" followed by a field int() rejects: ValueError, caught by nothing
ReadMalformed ==
  /\ pc = "run" /\ ser = "open"
  /\ pc' = "crashed"
  /\ Becomes(CurrentHost)
  /\ ev' = Event("malformed", 0, FALSE)
  /\ UNCHANGED <<now, views>>

\* ser.readline() raises SerialException / OSError
ReadError ==
  /\ pc = "run" /\ ser = "open"
  /\ Becomes(connection_lost(CurrentHost))
  /\ ev' = Event("read_error", 0, FALSE)
  /\ UNCHANGED <<pc, now, views>>

\* what a pass can meet: the clock moves and the append can fail only in a
\* pass that calls the tracker, Popen can fail only where it is called
CallsTracker(H, b) ==
  lookup(H.layer, b).action \in {"tracking_toggle", "project"}

CallsPopen(H, b) ==
  lookup(H.layer, b).action = "prevent_sleep" /\ ~H.prevent_sleep

Outcomes(possible) == IF possible THEN BOOLEAN ELSE {TRUE}

Clock(moves) == IF moves THEN Later(now) ELSE {now}

\* "BTN:<b>", whatever show_today prints left aside
Pass(b, lossy) ==
  /\ pc = "run" /\ ser = "open"
  /\ \E H0 \in {CurrentHost} :
     \E t2 \in Clock(CallsTracker(H0, b)),
        ok \in Outcomes(CallsTracker(H0, b)),
        spawn_ok \in Outcomes(CallsPopen(H0, b)) :
     \E fail \in Link(lossy, Len(dispatch(H0, b, now, t2, ok, spawn_ok).cmds)) :
     \E H \in {dispatch([H0 EXCEPT !.fail = fail], b, now, t2, ok, spawn_ok)} :
       /\ H.T.files /= files => TotalEntries(H.T.files) <= MaxEntries
       /\ Becomes(H)
       /\ now' = t2
       /\ ev' = Event("press", b, ~H.raised)
  /\ UNCHANGED pc

\* "BTN:<b>"
Press(b, lossy) == Pass(b, lossy) /\ UNCHANGED views

\* the code after the loop, reached by the long press of the shift button or
\* by KeyboardInterrupt
Exit(op, b, lossy) ==
  \E H0 \in {CurrentHost} :
  \E t2 \in Clock(current_task /= None), ok \in Outcomes(current_task /= None) :
  \E fail \in Link(lossy, Len(cleanup(H0, now, t2, ok).cmds)) :
  \E H \in {cleanup([H0 EXCEPT !.fail = fail], now, t2, ok)} :
    /\ TotalEntries(H.T.files) <= MaxEntries
    /\ Becomes(H)
    /\ now' = t2
    /\ pc' = IF H.raised THEN "crashed" ELSE "done"
    /\ ev' = Event(op, b, ~H.raised)
    /\ UNCHANGED views

\* variant: the long press of the shift button is also handled as its press
long_press_as_press(H, b) ==
  IF b = ShiftButton THEN [do_layer_shift(H) EXCEPT !.exit = TRUE] ELSE H

\* is_long_press: the shift button's sets user_requested_exit, and either way
\* `continue` skips the key handling
long_press(H, b) ==
  IF b = ShiftButton THEN [H EXCEPT !.exit = TRUE] ELSE H

\* "BTN:<b>:LONG"
LongPass(b) ==
  /\ pc = "run" /\ ser = "open"
  /\ LET H == long_press(CurrentHost, b)
     IN /\ Becomes(H)
        /\ pc' = IF H.exit THEN "exiting" ELSE pc
  /\ ev' = Event("long", b, TRUE)
  /\ UNCHANGED now

LongPress(b) == LongPass(b) /\ UNCHANGED views

\* `while not user_requested_exit` ends the loop
Cleanup(lossy) ==
  /\ pc = "exiting"
  /\ Exit("cleanup", 0, lossy)

\* Ctrl-C while the loop runs
KeyboardInterrupt(lossy) ==
  /\ pc \in {"run", "exiting"}
  /\ Exit("interrupt", 0, lossy)

\* a second of wall-clock time passes
Tick ==
  /\ now < MaxNow
  /\ now' = now + 1
  /\ ev' = Event("tick", 0, TRUE)
  /\ cmds' = <<>>
  /\ send_failed' = FALSE
  /\ UNCHANGED <<pc, ser, layer, prevent_sleep, caffeinate_proc, live,
                 current_task, current_csv_file, files, written, session_seen,
                 panel, views>>

\* the program is started again after it ended: main() up to the loop
Restart ==
  /\ pc \in {"done", "crashed"}
  /\ LET T == TimeTrackerInit(files, now)
     IN /\ layer' = 0
        /\ prevent_sleep' = FALSE
        /\ caffeinate_proc' = None
        /\ live' = 0
        /\ current_task' = T.task
        /\ current_csv_file' = T.file
        /\ files' = T.files
        /\ ser' = "none"
        /\ cmds' = <<>>
        /\ send_failed' = FALSE
        /\ session_seen' = FALSE
        /\ written' = {}
        /\ panel' = NoPanel
  /\ pc' = "run"
  /\ ev' = Event("start", 0, TRUE)
  /\ UNCHANGED <<now, views>>

\* the program on a link that carries every command
Next ==
  \/ Connect(FALSE)
  \/ ConnectDiscoveryFails
  \/ ConnectOpenFails
  \/ ReadOther
  \/ ReadMalformed
  \/ ReadError
  \/ \E b \in Buttons : Press(b, FALSE)
  \/ \E b \in Buttons : LongPress(b)
  \/ Cleanup(FALSE)
  \/ KeyboardInterrupt(FALSE)
  \/ Tick
  \/ Restart

Spec == Init /\ [][Next]_vars

\* one run of the program, from its start to its end, on a link whose
\* writes can fail
NextSend ==
  \/ Connect(TRUE)
  \/ ConnectDiscoveryFails
  \/ ConnectOpenFails
  \/ ReadOther
  \/ ReadMalformed
  \/ ReadError
  \/ \E b \in Buttons : Press(b, TRUE)
  \/ \E b \in Buttons : LongPress(b)
  \/ Cleanup(TRUE)
  \/ KeyboardInterrupt(TRUE)
  \/ Tick

SpecSend == Init /\ [][NextSend]_vars

\* One run of the program in which a connect attempt that stays possible is
\* eventually made with the device there: the loop comes back to
\* `if ser is None` after every reconnect_delay, so an attempt is never
\* postponed for ever.
NextLive ==
  \/ Connect(FALSE)
  \/ ConnectDiscoveryFails
  \/ ConnectOpenFails
  \/ ReadOther
  \/ ReadMalformed
  \/ ReadError
  \/ \E b \in Buttons : Press(b, FALSE)
  \/ \E b \in Buttons : LongPress(b)
  \/ Cleanup(FALSE)
  \/ KeyboardInterrupt(FALSE)
  \/ Tick

SpecLive == Init /\ [][NextLive]_vars /\ WF_vars(Connect(FALSE))

\* ----------------------------------------------------------- show_today
MaxRows == 3

\* datetime.date(): the date a clock reading or a timestamp falls on
date(t) == t \div DayLen

\* per_label[label] = per_label.get(label, 0) + dur
Accumulate(per_label, label, dur) ==
  IF label \in DOMAIN per_label
  THEN [per_label EXCEPT ![label] = @ + dur]
  ELSE [l \in DOMAIN per_label \cup {label} |->
          IF l = label THEN dur ELSE per_label[l]]

\* total_secs += secs, over the summary
TotalSecs(per_label) ==
  LET RECURSIVE sum(_)
      sum(L) == IF L = {} THEN 0
                ELSE LET l == CHOOSE x \in L : TRUE
                     IN per_label[l] + sum(L \ {l})
  IN sum(DOMAIN per_label)

\* variant: the STOP rows are not skipped
show_today_with_stops(fs, t, t_end) ==
  LET csv_file == get_csv_filename(t)
      today == date(t)
      raw_entries == IF csv_file \in DOMAIN fs
                     THEN SelectSeq(fs[csv_file], LAMBDA row : date(row[1]) = today)
                     ELSE <<>>
      RECURSIVE loop(_, _, _)
      loop(i, entries, per_label) ==
        IF i > Len(raw_entries)
        THEN [entries |-> entries, per_label |-> per_label,
              total |-> TotalSecs(per_label)]
        ELSE LET label == raw_entries[i][2]
                 start == raw_entries[i][1]
                 end == IF i + 1 <= Len(raw_entries)
                        THEN raw_entries[i + 1][1] ELSE t_end
                 dur == end - start
             IN loop(i + 1,
                     Append(entries, [start |-> start, end |-> end,
                                      label |-> label, duration |-> dur,
                                      is_running |-> i + 1 > Len(raw_entries)]),
                     Accumulate(per_label, label, dur))
  IN IF raw_entries = <<>> THEN NoReport ELSE loop(1, <<>>, <<>>)

\* What show_today derives from the file of the current date: t is the clock
\* when the file name and `today` are taken, t_end the clock that ends the
\* last entry.  The summary's order is that of project_sort_key, below.
show_today(fs, t, t_end) ==
  LET csv_file == get_csv_filename(t)
      today == date(t)
      raw_entries == IF csv_file \in DOMAIN fs
                     THEN SelectSeq(fs[csv_file], LAMBDA row : date(row[1]) = today)
                     ELSE <<>>
      RECURSIVE loop(_, _, _)
      loop(i, entries, per_label) ==
        IF i > Len(raw_entries)
        THEN [entries |-> entries, per_label |-> per_label,
              total |-> TotalSecs(per_label)]
        ELSE LET label == raw_entries[i][2]
                 start == raw_entries[i][1]
                 end == IF i + 1 <= Len(raw_entries)
                        THEN raw_entries[i + 1][1] ELSE t_end
                 dur == end - start
             IN IF label = STOP THEN loop(i + 1, entries, per_label)
                ELSE loop(i + 1,
                          Append(entries, [start |-> start, end |-> end,
                                           label |-> label, duration |-> dur,
                                           is_running |-> i + 1 > Len(raw_entries)]),
                          Accumulate(per_label, label, dur))
  IN IF raw_entries = <<>> THEN NoReport ELSE loop(1, <<>>, <<>>)

\* labels found in a log, and the logs of one date a run can start on: up to
\* MaxRows rows, timestamps in order
ReportLabels == {DefaultLabel, "Support", STOP}

LogsOfOneDay ==
  {rows \in UNION {[1..n -> (0..MaxNow) \X ReportLabels] : n \in 0..MaxRows} :
     /\ \A i, j \in 1..Len(rows) : i < j => rows[i][1] <= rows[j][1]
     /\ \A i \in 1..Len(rows) : date(rows[i][1]) = date(rows[1][1])}

\* the program is started on a log that earlier runs have left
InitReport ==
  \E rows \in LogsOfOneDay, t \in 0..MaxNow :
    /\ rows /= <<>> => rows[Len(rows)][1] <= t
    /\ LET fs == IF rows = <<>> THEN <<>> ELSE [d \in {date(rows[1][1])} |-> rows]
           T == TimeTrackerInit(fs, t)
       IN /\ current_task = T.task
          /\ current_csv_file = T.file
          /\ files = T.files
          /\ now = t
    /\ pc = "run"
    /\ ser = "none"
    /\ layer = 0
    /\ prevent_sleep = FALSE
    /\ caffeinate_proc = None
    /\ live = 0
    /\ cmds = <<>>
    /\ panel = NoPanel
    /\ written = {}
    /\ ev = Event("start", 0, TRUE)
    /\ send_failed = FALSE
    /\ session_seen = FALSE
    /\ report = NoReport
    /\ labels = <<>>
    /\ summary = <<>>
    /\ Idle

\* "BTN:<b>" where the layer maps b to show_today, with what it prints
ShowToday(b) ==
  /\ lookup(layer, b).action = "show_today"
  /\ Pass(b, FALSE)
  /\ report' = show_today(files, now, now')
  /\ UNCHANGED <<labels, summary, tools>>

NextReport ==
  \/ Connect(FALSE)
  \/ \E b \in Buttons : ShowToday(b)
  \/ Tick

SpecReport == InitReport /\ [][NextReport]_vars

\* ------------------------------------------------- summary by project
MaxLabels == 3

\* A label is the sequence of its maximal runs of digits and of other
\* characters; a run of digits carries the number int() reads from it.
Text(s) == [digits |-> FALSE, text |-> s, value |-> 0]

Digits(n) == [digits |-> TRUE, text |-> "", value |-> n]

\* labels a config.yaml can give the project keys
LabelPool ==
  { <<Text("Support")>>,
    <<Text("Meeting")>>,
    <<Text("Project "), Digits(2)>>,
    <<Text("Project "), Digits(10)>>,
    <<Text("Task "), Digits(2)>>,
    <<Text("Web"), Digits(3), Text(" Portal")>>,
    <<Text("Q"), Digits(3), Text(" Project "), Digits(1)>> }

\* str < str on the labels of the pool that hold no digit
Collation == <<"Meeting", "Support">>

StrLess(a, b) ==
  \E i, j \in 1..Len(Collation) : Collation[i] = a /\ Collation[j] = b /\ i < j

\* the runs of digits of a label, by position
DigitRuns(label) == {i \in 1..Len(label) : label[i].digits}

\* variant: the last run of digits is taken
project_sort_key_last(label) ==
  IF DigitRuns(label) /= {}
  THEN <<1, label[CHOOSE i \in DigitRuns(label) :
                    \A j \in DigitRuns(label) : j <= i].value>>
  ELSE <<0, label[1].text>>

\* re.search(r'\d+', label): the first run of digits, wherever it stands
project_sort_key(label) ==
  IF DigitRuns(label) /= {}
  THEN <<1, label[CHOOSE i \in DigitRuns(label) :
                    \A j \in DigitRuns(label) : i <= j].value>>
  ELSE <<0, label[1].text>>

\* tuple comparison: (0, str) < (1, int), numbers and strings by their order
KeyLess(k1, k2) ==
  \/ k1[1] < k2[1]
  \/ /\ k1[1] = k2[1]
     /\ IF k1[1] = 1 THEN k1[2] < k2[2] ELSE StrLess(k1[2], k2[2])

\* sorted(per_label.items(), key=project_sort_key): stable, so an item goes
\* behind every item whose key is not greater
sorted(items) ==
  LET RECURSIVE place(_, _)
      place(done, i) ==
        IF i > Len(items) THEN done
        ELSE LET k == project_sort_key(items[i])
                 p == Cardinality({n \in 1..Len(done) :
                                     ~KeyLess(k, project_sort_key(done[n]))})
             IN place(SubSeq(done, 1, p) \o <<items[i]>>
                        \o SubSeq(done, p + 1, Len(done)), i + 1)
  IN place(<<>>, 1)

\* the keys of per_label: distinct labels in the order the log first has them
LabelLists ==
  {ls \in UNION {[1..n -> LabelPool] : n \in 0..MaxLabels} :
     \A i, j \in 1..Len(ls) : i /= j => ls[i] /= ls[j]}

\* show_today reaches the summary with some per_label
InitSort ==
  LET T == TimeTrackerInit(<<>>, 0)
  IN /\ labels \in LabelLists
     /\ summary = <<>>
     /\ report = NoReport
     /\ pc = "run"
     /\ ser = "none"
     /\ layer = 0
     /\ prevent_sleep = FALSE
     /\ caffeinate_proc = None
     /\ live = 0
     /\ current_task = T.task
     /\ current_csv_file = T.file
     /\ files = T.files
     /\ now = 0
     /\ cmds = <<>>
     /\ panel = NoPanel
     /\ written = {}
     /\ ev = Event("start", 0, TRUE)
     /\ send_failed = FALSE
     /\ session_seen = FALSE
     /\ Idle

\* the "SUMMARY BY PROJECT" loop
Summarize ==
  /\ summary' = sorted(labels)
  /\ ev' = Event("summary", 0, TRUE)
  /\ UNCHANGED <<pc, ser, layer, prevent_sleep, caffeinate_proc, live,
                 current_task, current_csv_file, files, now, cmds, written,
                 send_failed, session_seen, report, labels, tools, panel>>

NextSort == Summarize

SpecSort == InitSort /\ [][NextSort]_vars

\* --------------------------------------------------------- find_pico_port
MaxPorts == 3

\* regex usbmodem(\d{5,}) and match.group(1)[:5]
GroupKeyLen == 5

\* everything of the tracker but the record of the last step
host == <<pc, ser, layer, prevent_sleep, caffeinate_proc, live, current_task,
          current_csv_file, files, now, cmds, written, send_failed,
          session_seen, report, labels, summary, panel>>

\* the tracker as main() has it before the first pass of its loop
HostBoot ==
  LET T == TimeTrackerInit(<<>>, 0)
  IN /\ pc = "run"
     /\ ser = "none"
     /\ layer = 0
     /\ prevent_sleep = FALSE
     /\ caffeinate_proc = None
     /\ live = 0
     /\ current_task = T.task
     /\ current_csv_file = T.file
     /\ files = T.files
     /\ now = 0
     /\ cmds = <<>>
     /\ panel = NoPanel
     /\ written = {}
     /\ ev = Event("start", 0, TRUE)
     /\ send_failed = FALSE
     /\ session_seen = FALSE
     /\ report = NoReport
     /\ labels = <<>>
     /\ summary = <<>>

\* The name of a port is "/dev/tty." + stem + tail, the tail a run of digits.
\* device is the physical device that exposes the port; no code reads it.
Port(stem, tail, device) == [stem |-> stem, tail |-> tail, device |-> device]

\* ports the glob patterns tty.usbmodem* and tty.usbserial* can find: the two
\* channels of the keypad, a board whose name shares their first five digits,
\* a modem with a short name, and two serial adapters
PortPool ==
  { Port("usbmodem", <<2, 0, 2, 2, 4, 1>>, "keypad"),
    Port("usbmodem", <<2, 0, 2, 2, 4, 3>>, "keypad"),
    Port("usbmodem", <<2, 0, 2, 2, 4, 5>>, "board"),
    Port("usbmodem", <<2, 1, 0, 1>>, "modem"),
    Port("usbserial", <<1, 4, 1, 0>>, "adapter A"),
    Port("usbserial", <<1, 4, 2, 0>>, "adapter B") }

\* A filter is a piece of a name: digits alone (PICO_PORT_FILTER=2022), or a
\* stem with the digits that follow it.  Unset or empty, it is falsy.
Filter(stem, digits) == [stem |-> stem, digits |-> digits]

NoFilter == Filter("", <<>>)

FilterPool ==
  { NoFilter,
    Filter("", <<2, 0, 2, 2>>),
    Filter("usbmodem", <<2, 1>>),
    Filter("usbserial", <<>>),
    Filter("", <<9, 9>>) }

\* port_filter in p
Contains(f, p) ==
  IF f.stem = ""
  THEN \E i \in 0..(Len(p.tail) - Len(f.digits)) :
         SubSeq(p.tail, i + 1, i + Len(f.digits)) = f.digits
  ELSE /\ f.stem = p.stem
       /\ Len(f.digits) <= Len(p.tail)
       /\ SubSeq(p.tail, 1, Len(f.digits)) = f.digits

\* str < str on two runs of digits
DigitsLess(a, b) ==
  \E k \in 0..Len(a) :
    /\ k <= Len(b)
    /\ SubSeq(a, 1, k) = SubSeq(b, 1, k)
    /\ \/ k = Len(a) /\ k < Len(b)
       \/ k < Len(a) /\ k < Len(b) /\ a[k + 1] < b[k + 1]

\* str < str on two names: "usbmodem..." sorts before "usbserial..."
NameLess(p, q) ==
  IF p.stem = q.stem THEN DigitsLess(p.tail, q.tail) ELSE p.stem = "usbmodem"

\* sorted(ports)
RECURSIVE SortedPorts(_)
SortedPorts(S) ==
  IF S = {} THEN <<>>
  ELSE LET p == CHOOSE x \in S : \A y \in S \ {x} : NameLess(x, y)
       IN <<p>> \o SortedPorts(S \ {p})

Reversed(s) == [i \in 1..Len(s) |-> s[Len(s) + 1 - i]]

\* the key 'other', which no run of five digits equals
OtherKey == <<>>

\* the key find_pico_port files a port under
GroupKey(p) ==
  IF p.stem = "usbmodem" /\ Len(p.tail) >= GroupKeyLen
  THEN SubSeq(p.tail, 1, GroupKeyLen)
  ELSE OtherKey

\* groups[key]
Group(candidates, key) == {p \in candidates : GroupKey(p) = key}

\* pico_candidates: the ports of the groups that have exactly two
PicoCandidates(candidates) ==
  {p \in candidates : Cardinality(Group(candidates, GroupKey(p))) = 2}

\* if port_filter: ... if filtered: candidates = filtered
Filtered(ports, port_filter) ==
  IF port_filter /= NoFilter /\ {p \in ports : Contains(port_filter, p)} /= {}
  THEN {p \in ports : Contains(port_filter, p)}
  ELSE ports

\* the ports the loops try
Candidates(ports, port_filter) ==
  IF PicoCandidates(Filtered(ports, port_filter)) /= {}
  THEN PicoCandidates(Filtered(ports, port_filter))
  ELSE Filtered(ports, port_filter)

\* for port in reversed(candidates), then for port in candidates
Attempts(candidates) ==
  Reversed(SortedPorts(candidates)) \o SortedPorts(candidates)

NoPico == "No Pico found"
NoFreePort == "No free Pico serial port found (all busy?)"

Found(p, tried) == [found |-> {p}, error |-> "", tried |-> tried]
RuntimeError(msg, tried) == [found |-> {}, error |-> msg, tried |-> tried]
NotCalled == [found |-> {}, error |-> "not called", tried |-> <<>>]

\* refused: the attempts at which serial.Serial raises SerialException
find_pico_port(ports, port_filter, refused) ==
  IF ports = {} THEN RuntimeError(NoPico, <<>>)
  ELSE LET order == Attempts(Candidates(ports, port_filter))
           free == {i \in 1..Len(order) : i \notin refused}
       IN IF free = {} THEN RuntimeError(NoFreePort, order)
          ELSE LET k == CHOOSE i \in free : \A j \in free : i <= j
               IN Found(order[k], SubSeq(order, 1, k))

\* one call, with what /dev holds, the filter of the environment and the
\* outcome of each open the call may make
InitDiscover ==
  /\ HostBoot
  /\ \E ports \in {S \in SUBSET PortPool : Cardinality(S) <= MaxPorts},
        port_filter \in FilterPool :
     \E refused \in SUBSET (1..(2 * Cardinality(ports))) :
       probe = [ports |-> ports, port_filter |-> port_filter,
                refused |-> refused, result |-> NotCalled]
  /\ pico = None
  /\ wire = <<>>
  /\ calib = None

Discover ==
  /\ probe.result = NotCalled
  /\ probe' = [probe EXCEPT !.result =
                 find_pico_port(probe.ports, probe.port_filter, probe.refused)]
  /\ ev' = Event("discover", 0, probe'.result.error = "")
  /\ UNCHANGED <<host, pico, wire, calib>>

NextDiscover == Discover

SpecDiscover == InitDiscover /\ [][NextDiscover]_vars

\* ------------------------------------------------------------ the firmware
MaxUptime == 12
MaxLag == 1

\* len(BUTTON_PINS)
NumButtons == 9

\* seconds
LONG_PRESS_DURATION == 5

Pins == 1..NumButtons

\* "BTN:<n>" or "BTN:<n>:LONG"; pin is the button that caused it, which the
\* text of the line does not carry
Line(n, long, pin) == [n |-> n, long |-> long, pin |-> pin]

\* /.key_map as the firmware finds it: absent, or one calibration wrote
RemapPool == { <<>>, (1 :> 9) @@ (9 :> 1) }

\* BUTTON_REMAP.get(btn_num, btn_num)
remap_button(P, btn_num) ==
  IF btn_num \in DOMAIN P.BUTTON_REMAP THEN P.BUTTON_REMAP[btn_num] ELSE btn_num

\* the call; whether the write goes through is the link's affair
send_event(P, msg) == [P EXCEPT !.out = Append(@, msg)]

\* variant: the LONG event is not latched
poll_without_latch(P, i, cur, t) ==
  IF cur /= P.last_states[i]
  THEN IF cur
       THEN [send_event(P, Line(remap_button(P, i), FALSE, i))
               EXCEPT !.press_times[i] = t, !.long_sent[i] = FALSE,
                      !.last_states[i] = cur]
       ELSE [P EXCEPT !.press_times[i] = 0, !.long_sent[i] = FALSE,
                      !.last_states[i] = cur]
  ELSE IF /\ cur /\ P.press_times[i] > 0 /\ ~P.long_sent[i]
          /\ t - P.press_times[i] >= LONG_PRESS_DURATION
       THEN send_event(P, Line(remap_button(P, i), TRUE, i))
       ELSE P

\* the body of `for i, btn in enumerate(buttons)`, with cur = btn.value
poll(P, i, cur, t) ==
  IF cur /= P.last_states[i]
  THEN IF cur
       THEN [send_event(P, Line(remap_button(P, i), FALSE, i))
               EXCEPT !.press_times[i] = t, !.long_sent[i] = FALSE,
                      !.last_states[i] = cur]
       ELSE [P EXCEPT !.press_times[i] = 0, !.long_sent[i] = FALSE,
                      !.last_states[i] = cur]
  ELSE IF /\ cur /\ P.press_times[i] > 0 /\ ~P.long_sent[i]
          /\ t - P.press_times[i] >= LONG_PRESS_DURATION
       THEN [send_event(P, Line(remap_button(P, i), TRUE, i))
               EXCEPT !.long_sent[i] = TRUE]
       ELSE P

\* step 1 of the loop: now = time.monotonic(), then every button in turn;
\* pressed is the set of buttons whose btn.value reads True
RECURSIVE poll_from(_, _, _, _)
poll_from(P, i, pressed, t) ==
  IF i > NumButtons THEN P
  ELSE poll_from(poll(P, i, i \in pressed, t), i + 1, pressed, t)

query_buttons(P, pressed, t) ==
  poll_from([P EXCEPT !.now = t, !.out = <<>>], 1, pressed, t)

\* lines about button i among some lines
LinesOf(lines, i, long) ==
  Cardinality({k \in 1..Len(lines) : lines[k].pin = i /\ lines[k].long = long})

\* What an observer of the buttons keeps, from the samples alone:
\* sampled = the buttons read as pressed by the last pass; held = for how long
\* a button has been read as pressed without a break; shorts, longs = the
\* lines of each kind sent for the press in progress; relatched = a release
\* has followed a LONG line; presses = the presses of each button so far.
Observed(P0, P, pressed, dt) ==
  [P EXCEPT
     !.sampled = pressed,
     !.held = [i \in Pins |->
                 IF i \in pressed /\ i \in P0.sampled THEN P0.held[i] + dt ELSE 0],
     !.shorts = [i \in Pins |->
                   IF i \notin pressed THEN 0
                   ELSE (IF i \in P0.sampled THEN P0.shorts[i] ELSE 0)
                        + LinesOf(P.out, i, FALSE)],
     !.longs = [i \in Pins |->
                  IF i \notin pressed THEN 0
                  ELSE (IF i \in P0.sampled THEN P0.longs[i] ELSE 0)
                       + LinesOf(P.out, i, TRUE)],
     !.relatched = @ \cup {i \in Pins : i \notin pressed /\ i \in P0.sampled
                                         /\ P0.longs[i] > 0},
     !.presses = [i \in Pins |->
                    IF i \in pressed /\ i \notin P0.sampled THEN P0.presses[i] + 1
                    ELSE P0.presses[i]]]

\* the firmware when its loop starts: the start-up effect has taken its time,
\* so the monotonic clock is positive
PicoBoot(remap, touched) ==
  [ BUTTON_REMAP |-> remap,
    last_states |-> [i \in Pins |-> FALSE],
    press_times |-> [i \in Pins |-> 0],
    long_sent |-> [i \in Pins |-> FALSE],
    now |-> 1,
    out |-> <<>>,
    touched |-> touched,
    sampled |-> {},
    held |-> [i \in Pins |-> 0],
    shorts |-> [i \in Pins |-> 0],
    longs |-> [i \in Pins |-> 0],
    relatched |-> {},
    presses |-> [i \in Pins |-> 0],
    lost |-> {},
    flipped |-> {},
    read |-> <<>> ]

\* the lines of a pass that reach the host: a write that raises is swallowed,
\* and what is written while no host has the port open is never read
Delivered(lines, dropped) ==
  IF ser /= "open" THEN <<>>
  ELSE LET kept == {k \in 1..Len(lines) : k \notin dropped}
           RECURSIVE pick(_)
           pick(k) == IF k > Len(lines) THEN <<>>
                      ELSE (IF k \in kept THEN <<lines[k]>> ELSE <<>>) \o pick(k + 1)
       IN pick(1)

MaxWire == 2
MaxPresses == 2

\* a line on its way, marked with the press it belongs to: the n-th of its button
Stamped(lines, presses) ==
  [k \in 1..Len(lines) |->
     [n |-> lines[k].n, long |-> lines[k].long, pin |-> lines[k].pin,
      press |-> presses[lines[k].pin]]]

Press_of(line) == <<line.pin, line.press>>

\* the presses whose BTN line is among some lines
Announced(lines) == {Press_of(lines[k]) : k \in {j \in 1..Len(lines) : ~lines[j].long}}

\* One pass of the firmware's loop.  lost = the presses whose BTN line was
\* sent and never reached the host's input; flipped = the presses whose BTN
\* line the host has answered by changing the layer; read = the line the host
\* read last.
Scan(lossy) ==
  /\ \E pressed \in SUBSET pico.touched, dt \in 0..MaxLag :
       /\ pico.now + dt <= MaxUptime
       /\ \A i \in pressed \ pico.sampled : pico.presses[i] < MaxPresses
       /\ \E P \in {Observed(pico, query_buttons(pico, pressed, pico.now + dt),
                             pressed, dt)} :
          \E dropped \in Link(lossy, Len(P.out)) :
          \E sent \in {Delivered(Stamped(P.out, P.presses), dropped)} :
            /\ Len(wire) + Len(sent) <= MaxWire
            /\ wire' = wire \o sent
            /\ pico' = [P EXCEPT !.lost = @ \cup (Announced(Stamped(P.out, P.presses))
                                                   \ Announced(sent))]
  /\ ev' = Event("scan", 0, TRUE)
  /\ UNCHANGED <<host, probe, calib>>

\* the keypad alone, two of its buttons in use, no host on the port
InitFirmware ==
  /\ HostBoot
  /\ \E remap \in RemapPool : pico = PicoBoot(remap, {1, 9})
  /\ wire = <<>>
  /\ probe = None
  /\ calib = None

NextFirmware == Scan(FALSE)

SpecFirmware == InitFirmware /\ [][NextFirmware]_vars

\* --------------------------------------------------- the keypad on the host
\* variant: the newest line is read first
readline_newest(lines) ==
  [line |-> lines[Len(lines)], rest |-> SubSeq(lines, 1, Len(lines) - 1)]

\* ser.readline(): the oldest line waiting, and what stays behind it
readline(lines) == [line |-> Head(lines), rest |-> Tail(lines)]

\* ser.reset_input_buffer() of a new session: what waited is gone
Attach ==
  /\ Open(FALSE)
  /\ wire' = <<>>
  /\ pico' = [pico EXCEPT !.lost = @ \cup Announced(wire)]
  /\ UNCHANGED <<report, labels, summary, probe, calib>>

\* a pass of the host's loop that reads "BTN:<n>"
Receive ==
  /\ wire /= <<>>
  /\ \E r \in {readline(wire)} :
       /\ ~r.line.long
       /\ Pass(r.line.n, FALSE)
       /\ wire' = r.rest
       /\ pico' = [pico EXCEPT !.read = r.line,
                               !.flipped = IF layer' /= layer
                                           THEN @ \cup {Press_of(r.line)} ELSE @]
  /\ UNCHANGED <<report, labels, summary, probe, calib>>

\* a pass of the host's loop that reads "BTN:<n>:LONG"
ReceiveLong ==
  /\ wire /= <<>>
  /\ \E r \in {readline(wire)} :
       /\ r.line.long
       /\ LongPass(r.line.n)
       /\ wire' = r.rest
       /\ pico' = [pico EXCEPT !.read = r.line]
  /\ UNCHANGED <<report, labels, summary, probe, calib>>

\* the tracker and the keypad, the shift button in use
InitKeypad ==
  /\ HostBoot
  /\ \E remap \in RemapPool :
       pico = PicoBoot(remap, {i \in Pins :
                                 remap_button([BUTTON_REMAP |-> remap], i) = ShiftButton})
  /\ wire = <<>>
  /\ probe = None
  /\ calib = None

NextKeypad ==
  \/ Scan(TRUE)
  \/ Attach
  \/ ReadError
  \/ Receive
  \/ ReceiveLong
  \/ Cleanup(FALSE)

SpecKeypad == InitKeypad /\ [][NextKeypad]_vars

\* ------------------------------------------------------ calibrate_keymap.py
\* for logical_btn in range(1, 10)
NumPrompts == 9

\* if logical_btn <= 8: the keypad has eight indicators
NumLeds == 8

Cyan == <<0, 50, 50>>
DimGreen == <<0, 50, 0>>
DimRed == <<50, 0, 0>>
FlashGreen == <<0, 100, 0>>

\* The number the device sends for the button at each labelled place: the
\* wiring of the keypad, seen through the key map the firmware has loaded.
WiringPool ==
  { [p \in 1..NumPrompts |-> p],
    [p \in 1..NumPrompts |-> NumPrompts + 1 - p],
    [p \in 1..NumPrompts |-> IF p = 1 THEN 9 ELSE IF p = 9 THEN 1 ELSE p] }

\* /.key_map on the device: its "raw:logical" lines, in order
NoFile == [exists |-> FALSE, lines |-> <<>>]
KeyMapFile(lines) == [exists |-> TRUE, lines |-> lines]

\* the dict the lines parse to: a later line of a raw number replaces an earlier
load_existing_key_map(file) ==
  [raw \in {file.lines[k][1] : k \in 1..Len(file.lines)} |->
     file.lines[CHOOSE k \in 1..Len(file.lines) :
                  /\ file.lines[k][1] = raw
                  /\ \A j \in 1..Len(file.lines) :
                       file.lines[j][1] = raw => j <= k][2]]

\* sorted(key_map.items()), one "raw:logical" line each
RECURSIVE SortedItems(_, _)
SortedItems(key_map, raws) ==
  IF raws = {} THEN <<>>
  ELSE LET r == CHOOSE x \in raws : \A y \in raws : x <= y
       IN <<<<r, key_map[r]>>>> \o SortedItems(key_map, raws \ {r})

\* save_key_map: False with the drive not mounted; else the file is opened for
\* writing and the lines go out, all of them or, on an error, the first few
save_key_map(C, mounted, flushed) ==
  IF ~mounted THEN [C EXCEPT !.saved = FALSE]
  ELSE LET lines == SortedItems(C.key_map, DOMAIN C.key_map)
       IN [C EXCEPT !.opened = TRUE,
                    !.file = KeyMapFile(SubSeq(lines, 1, flushed)),
                    !.saved = (flushed = Len(lines))]

\* return of calibrate() and sys.exit(0 if success else 1)
Return(C, success, why) ==
  [C EXCEPT !.pc = "returned", !.exit = IF success THEN 0 ELSE 1, !.why = why]

\* an exception nothing catches: traceback, exit status 1
Traceback(C, why) == [C EXCEPT !.pc = "crashed", !.exit = 1, !.why = why]

\* variant: a raw number seen before is taken again
prompt_unchecked(C, answer) ==
  LET k == C.logical_btn
      asked == [C EXCEPT !.sent = IF k <= NumLeds THEN <<Led(k - 1, Cyan)>> ELSE <<>>]
  IN IF answer.kind = "timeout"
     THEN Return([asked EXCEPT !.sent = Append(@, LedAll(Off)), !.ser = "closed"],
                 FALSE, "timeout")
     ELSE IF answer.kind = "malformed" THEN Traceback(asked, "malformed")
     ELSE [asked EXCEPT
             !.key_map = (answer.raw :> k) @@ @,
             !.pressed = Append(@, answer.raw),
             !.sent = IF k <= NumLeds THEN Append(@, Led(k - 1, DimGreen)) ELSE @,
             !.logical_btn = k + 1,
             !.pc = IF k = NumPrompts THEN "save" ELSE "prompt"]

\* the body of the loop; answer is what wait_for_button comes to
prompt(C, answer) ==
  LET k == C.logical_btn
      asked == [C EXCEPT !.sent = IF k <= NumLeds THEN <<Led(k - 1, Cyan)>> ELSE <<>>]
  IN IF answer.kind = "timeout"
     THEN Return([asked EXCEPT !.sent = Append(@, LedAll(Off)), !.ser = "closed"],
                 FALSE, "timeout")
     ELSE IF answer.kind = "malformed" THEN Traceback(asked, "malformed")
     ELSE IF answer.raw \in DOMAIN C.key_map
     THEN Return([asked EXCEPT !.sent = @ \o <<LedAll(DimRed), LedAll(Off)>>,
                               !.ser = "closed"],
                 FALSE, "duplicate")
     ELSE [asked EXCEPT
             !.key_map = (answer.raw :> k) @@ @,
             !.pressed = Append(@, answer.raw),
             !.sent = IF k <= NumLeds THEN Append(@, Led(k - 1, DimGreen)) ELSE @,
             !.logical_btn = k + 1,
             !.pc = IF k = NumPrompts THEN "save" ELSE "prompt"]

\* what the user may press at a prompt: the button asked for, the one after
\* it, or one pressed before
Presses(C) ==
  {C.wiring[p] : p \in {q \in 1..NumPrompts :
                          q \in {C.logical_btn, C.logical_btn + 1}}}
  \cup {C.pressed[k] : k \in 1..Len(C.pressed)}

\* wait_for_button: the number of the first "BTN:<n>" line, None after 30 s
\* without one, ValueError from int() on a line like "BTN:x"
Answers(C) ==
  {[kind |-> "press", raw |-> r] : r \in Presses(C)}
  \cup {[kind |-> "timeout", raw |-> 0], [kind |-> "malformed", raw |-> 0]}

CalibrationStart(file, wiring) ==
  [ pc |-> "start", file |-> file, wiring |-> wiring, key_map |-> <<>>,
    logical_btn |-> 1, pressed |-> <<>>, ser |-> "none", sent |-> <<>>,
    opened |-> FALSE, saved |-> FALSE, exit |-> -1, why |-> "" ]

\* calibrate() up to the first prompt
Begin ==
  /\ calib.pc = "start"
  /\ \E mounted, recalibrate, removed, remounted, found, opened \in BOOLEAN :
       calib' =
         IF ~mounted THEN Return(calib, FALSE, "not mounted")
         ELSE IF calib.file.exists /\ DOMAIN load_existing_key_map(calib.file) /= {}
                 /\ ~recalibrate
         THEN Return(calib, TRUE, "kept")
         ELSE LET C == IF calib.file.exists
                          /\ DOMAIN load_existing_key_map(calib.file) /= {} /\ removed
                       THEN [calib EXCEPT !.file = NoFile] ELSE calib
              IN IF calib.file.exists
                    /\ DOMAIN load_existing_key_map(calib.file) /= {} /\ ~remounted
                 THEN Return(C, FALSE, "no remount")
                 ELSE IF ~found THEN Return(C, FALSE, "no keypad")
                 ELSE IF ~opened THEN Traceback(C, "SerialException")
                 ELSE [C EXCEPT !.pc = "prompt", !.ser = "open",
                                !.sent = <<LedAll(Off)>>]
  /\ ev' = Event("calibrate", 0, calib'.exit <= 0)
  /\ UNCHANGED <<host, probe, pico, wire>>

Prompt ==
  /\ calib.pc = "prompt"
  /\ \E answer \in Answers(calib) :
       calib' = prompt(calib, answer)
  /\ ev' = Event("prompt", calib.logical_btn, calib'.exit <= 0)
  /\ UNCHANGED <<host, probe, pico, wire>>

\* after the ninth prompt: the green flashes, ser.close(), save_key_map
Save ==
  /\ calib.pc = "save"
  /\ \E mounted \in BOOLEAN, flushed \in 0..NumPrompts :
       LET C == save_key_map([calib EXCEPT
                                !.sent = <<LedAll(FlashGreen), LedAll(Off),
                                           LedAll(FlashGreen), LedAll(Off),
                                           LedAll(FlashGreen), LedAll(Off)>>,
                                !.ser = "closed"],
                             mounted, flushed)
       IN calib' = Return(C, C.saved, IF C.saved THEN "saved" ELSE "save failed")
  /\ ev' = Event("save", 0, calib'.exit = 0)
  /\ UNCHANGED <<host, probe, pico, wire>>

\* one run of the script, on a device with or without a key map
InitCalibrate ==
  /\ HostBoot
  /\ \E wiring \in WiringPool,
        file \in {NoFile, KeyMapFile(<<>>), KeyMapFile(<<<<1, 9>>, <<9, 1>>>>)} :
       calib = CalibrationStart(file, wiring)
  /\ probe = None
  /\ pico = None
  /\ wire = <<>>

NextCalibrate ==
  \/ Begin
  \/ Prompt
  \/ Save

SpecCalibrate == InitCalibrate /\ [][NextCalibrate]_vars

\* ================================================================ claims
Has(cs, c) == \E i \in 1..Len(cs) : cs[i] = c

Rows(fs, d) == IF d \in DOMAIN fs THEN fs[d] ELSE <<>>

LastLabel(rows) == IF Len(rows) = 0 THEN None ELSE rows[Len(rows)][2]

\* this step appends exactly `row` to the file of date d, creating it if needed
AppendsTo(d, row) ==
  d \in DOMAIN files' /\ files'[d] = Append(Rows(files, d), row)

\* every file other than that of date d is as it was, and none appears
OthersUntouched(d) ==
  /\ DOMAIN files \subseteq DOMAIN files'
  /\ \A e \in DOMAIN files' \ {d} : e \in DOMAIN files /\ files'[e] = files[e]

\* this step is a loop pass that decoded a short press whose keymap action,
\* in the layer the pass started in, is a
PressStep(a) ==
  pc = "run" /\ ev'.op = "press" /\ lookup(layer, ev'.btn).action = a

\* the colour the dispatcher gives LED 2 for a task label: the keymap colour
\* of a project, green for the default task of the toggle
ProjectColor(label) ==
  IF label = DefaultLabel THEN Green
  ELSE LET c == CHOOSE k \in {KEYMAP[l][b] : l \in DOMAIN KEYMAP, b \in 1..9} :
                  k.action = "project" /\ k.label = label
       IN c.color

\* C1: whenever the session re-enters Connected while a task is active and
\* the layer is 1, the commands of that reconnect set the tracking-on
\* indicator (LED 0 green), the project-colour indicator (LED 2) of the
\* active task and the layer-1 indicator (LED 7 yellow).
C1_ReconnectConvergence ==
  (ev.op = "connect" /\ Truthy(current_task) /\ layer = 1) =>
    /\ Has(cmds, Led(0, Green))
    /\ Has(cmds, Led(2, ProjectColor(current_task)))
    /\ Has(cmds, Led(7, Yellow))

\* C2: at most one inhibitor subprocess is live; one is live only while the
\* flag is on and the handle is held, so a dispatch spawns only when none is
\* running and turning off terminates the running one.
C2_SingleInhibitor ==
  /\ live \in {0, 1}
  /\ (live = 1) => (prevent_sleep /\ caffeinate_proc /= None)
  /\ (pc = "run" /\ caffeinate_proc /= None) => live = 1
  /\ ~prevent_sleep => live = 0

C2_Witness ==
  /\ ev.op = "press" /\ ev.ok /\ ev.btn = 8
  /\ prevent_sleep /\ live = 1

\* C3: construction restores current_task from the last row of the current
\* day's file (its label when that is not STOP, None when it is STOP or the
\* file has no row) and appends no row to any file.
C3_Restoration ==
  [][(pc /= "run" /\ pc' = "run") =>
       LET rows == Rows(files, get_csv_filename(now))
       IN /\ current_task' = IF Len(rows) > 0 /\ LastLabel(rows) /= STOP
                             THEN LastLabel(rows) ELSE None
          /\ \A d \in DOMAIN files' : files'[d] = Rows(files, d)
          /\ DOMAIN files \subseteq DOMAIN files']_vars

C3_Witness ==
  /\ ev.op = "start" /\ pc = "run"
  /\ current_task /= None
  /\ current_task = LastLabel(Rows(files, current_csv_file))

\* C4 (as claimed): a StartProject dispatch while a task is active logs a STOP
\* row and then the project's row, leaves current_task at the new label and
\* issues the project-colour command.
C4_StopThenStart ==
  [][(PressStep("project") /\ ev'.ok /\ Truthy(current_task)) =>
       LET config == lookup(layer, ev'.btn)
           f == get_csv_filename(now)
           old == Rows(files, f)
       IN /\ f \in DOMAIN files'
          /\ Len(files'[f]) = Len(old) + 2
          /\ files'[f][Len(old) + 1][2] = STOP
          /\ files'[f][Len(old) + 2][2] = config.label
          /\ current_task' = config.label
          /\ Has(cmds', Led(2, config.color))]_vars

\* C4 (amended): a StartProject dispatch whose append succeeds, while a task
\* is active, logs exactly one row, (now, label), and no STOP row; afterwards
\* current_task is the new label and the project-colour command carries the
\* action's configured colour.
C4_ProjectSupersedes ==
  [][(PressStep("project") /\ ev'.ok /\ Truthy(current_task)) =>
       LET config == lookup(layer, ev'.btn)
           f == get_csv_filename(now)
       IN /\ AppendsTo(f, <<now', config.label>>)
          /\ OthersUntouched(f)
          /\ current_task' = config.label
          /\ Has(cmds', Led(2, config.color))]_vars

C4_Witness ==
  /\ ev.op = "press" /\ ev.ok /\ ev.btn = 1 /\ layer = 1
  /\ current_task = "Project 5"
  /\ Has(cmds, Led(2, <<128, 255, 0>>))
  /\ LET rows == Rows(files, current_csv_file)
     IN /\ Len(rows) >= 2
        /\ rows[Len(rows)][2] = "Project 5"
        /\ rows[Len(rows) - 1][2] \notin {STOP, "Project 5"}

\* C5: a start_task call that returns appends exactly one row (now, label)
\* to the file of the date it resolved, touches no other row, inserts no
\* STOP, and leaves current_task = label, whether or not a task was active.
StartStep ==
  \/ PressStep("project")
  \/ PressStep("tracking_toggle") /\ ~Truthy(current_task)

StartedLabel ==
  IF lookup(layer, ev'.btn).action = "project"
  THEN lookup(layer, ev'.btn).label ELSE DefaultLabel

C5_StartTask ==
  [][(StartStep /\ ev'.ok) =>
       /\ AppendsTo(get_csv_filename(now), <<now', StartedLabel>>)
       /\ OthersUntouched(get_csv_filename(now))
       /\ now <= now'
       /\ current_task' = StartedLabel]_vars

C5_Witness ==
  /\ ev.op = "press" /\ ev.ok /\ ev.btn = 1 /\ layer = 0
  /\ current_task = DefaultLabel
  /\ Rows(files, current_csv_file) /= <<>>
  /\ LET rows == Rows(files, current_csv_file)
     IN rows[Len(rows)] = <<now, DefaultLabel>>

\* C6: stop_task is a no-op when no task is active; when one is active and
\* the append succeeds it appends exactly one (now, STOP) row and clears
\* current_task; and no run of the program writes a STOP row directly after a
\* STOP row it wrote itself.
StopStep ==
  \/ PressStep("tracking_toggle") /\ Truthy(current_task)
  \/ pc \in {"run", "exiting"} /\ ev'.op \in {"interrupt", "cleanup"}

StopNoOp ==
  current_task = None =>
    /\ files' = files
    /\ current_csv_file' = current_csv_file
    /\ current_task' = None

StopAppendsOne ==
  (current_task /= None /\ ev'.ok) =>
    /\ AppendsTo(get_csv_filename(now), <<now', STOP>>)
    /\ OthersUntouched(get_csv_filename(now))
    /\ current_task' = None

\* this step appends a STOP row to a file whose last row is a STOP row that
\* this run wrote
DoubleStop ==
  \E d \in DOMAIN files :
    /\ d \in written
    /\ LastLabel(files[d]) = STOP
    /\ Len(files'[d]) > Len(files[d])
    /\ files'[d][Len(files[d]) + 1][2] = STOP

C6_StopTask ==
  [][(StopStep => (StopNoOp /\ StopAppendsOne)) /\ ~DoubleStop]_vars

\* C7: with a non-decreasing clock, the rows of every file are in
\* non-decreasing timestamp order, and every step keeps every row of every
\* file, unchanged and at its position.
Sorted(fs) ==
  \A d \in DOMAIN fs : \A i, j \in 1..Len(fs[d]) :
    i < j => fs[d][i][1] <= fs[d][j][1]

AppendOnly ==
  \A d \in DOMAIN files :
    /\ d \in DOMAIN files'
    /\ Len(files'[d]) >= Len(files[d])
    /\ SubSeq(files'[d], 1, Len(files[d])) = files[d]

C7_SortedAppendOnly == [][AppendOnly /\ Sorted(files')]_vars

C7_Witness ==
  \E d \in DOMAIN files :
    /\ d \in written
    /\ Len(files[d]) >= 2
    /\ files[d][1][1] < files[d][2][1]

\* C8: a start_task / stop_task call made after midnight relative to the
\* tracker's previous call writes its row into the new date's file, created
\* if missing, and changes no other file; a loop pass that calls neither
\* leaves current_task and the files alone, so the task survives midnight.
TrackerCallStep ==
  \/ StartStep
  \/ StopStep /\ current_task /= None

CalledLabel ==
  IF PressStep("project") \/ (PressStep("tracking_toggle") /\ ~Truthy(current_task))
  THEN StartedLabel ELSE STOP

NoCallStep ==
  pc = "run" /\ pc' = "run" /\ ev'.op \notin {"press", "interrupt"}

C8_DayRollover ==
  [][/\ (TrackerCallStep /\ ev'.ok /\ get_csv_filename(now) /= current_csv_file) =>
          /\ AppendsTo(get_csv_filename(now), <<now', CalledLabel>>)
          /\ OthersUntouched(get_csv_filename(now))
          /\ current_csv_file' = get_csv_filename(now)
     /\ NoCallStep => (current_task' = current_task /\ files' = files)]_vars

C8_Witness ==
  /\ ev.op = "press" /\ ev.ok
  /\ written = {0, 1}
  /\ current_csv_file = 1
  /\ Len(files[0]) = 1 /\ files[0][1][2] /= STOP
  /\ Len(files[1]) = 1

\* C9: a ToggleTracking dispatch that completes stops an active task (STOP
\* row logged, LED 0 off) and otherwise starts the default-labelled task
\* (LED 0 green); it thereby flips active / inactive, so two in a row restore
\* the status.
C9_ToggleTracking ==
  [][(PressStep("tracking_toggle") /\ ev'.ok) =>
       IF Truthy(current_task)
       THEN /\ current_task' = None
            /\ AppendsTo(get_csv_filename(now), <<now', STOP>>)
            /\ Has(cmds', Led(0, Off))
            /\ ~Has(cmds', Led(0, Green))
       ELSE /\ current_task' = DefaultLabel
            /\ AppendsTo(get_csv_filename(now), <<now', DefaultLabel>>)
            /\ Has(cmds', Led(0, Green))
            /\ ~Has(cmds', Led(0, Off))]_vars

C9_Witness ==
  /\ ev.op = "press" /\ ev.ok /\ ev.btn = 1 /\ layer = 0
  /\ current_task = None
  /\ LET rows == Rows(files, current_csv_file)
     IN Len(rows) = 2 /\ rows[1][2] = DefaultLabel /\ rows[2][2] = STOP
  /\ Has(cmds, Led(0, Off))

\* C10: a press of the shift button flips the layer between 0 and 1, leaves
\* the tracker and the sleep inhibitor alone and sends the layer indicator,
\* on exactly when the new layer is 1; presses are looked up in the layer in
\* force: button 1 toggles in layer 0 and starts Project 5 in layer 1, button
\* 8 flips the sleep flag only in layer 1.
C10_ShiftLayer ==
  [][/\ layer' \in {0, 1}
     /\ (pc = "run" /\ ev'.op = "press" /\ ev'.btn = ShiftButton) =>
          /\ layer' = 1 - layer
          /\ UNCHANGED <<current_task, current_csv_file, files, prevent_sleep,
                         caffeinate_proc, live>>
          /\ cmds' = <<Led(7, IF layer' = 1 THEN Yellow ELSE Off)>>
     /\ (pc = "run" /\ ev'.op = "press" /\ ev'.btn = 1 /\ ev'.ok) =>
          IF layer = 1 THEN current_task' = "Project 5"
          ELSE current_task' \in {None, DefaultLabel}
     /\ (pc = "run" /\ ev'.op = "press" /\ ev'.btn = 8 /\ ev'.ok) =>
          (prevent_sleep' /= prevent_sleep) = (layer = 1)]_vars

C10_Witness ==
  /\ ev.op = "press" /\ ev.btn = ShiftButton
  /\ layer = 0
  /\ cmds = <<Led(7, Off)>>
  /\ current_task = "Project 5"

\* what the loop keeps between passes, the log included
HostState ==
  <<layer, prevent_sleep, caffeinate_proc, live, current_task,
    current_csv_file, files>>

\* C11: a long press never runs the keymap action of its button.  The long
\* press of the shift button leaves layer, tracker, log and inhibitor as they
\* are and sets the exit request; the long press of any other button changes
\* nothing; neither sends an indicator command, and the link stays open.
C11_LongPress ==
  [][(pc = "run" /\ ev'.op = "long") =>
       /\ UNCHANGED HostState
       /\ ser' = "open"
       /\ cmds' = <<>>
       /\ pc' = IF ev'.btn = ShiftButton THEN "exiting" ELSE "run"]_vars

C11_Witness ==
  /\ ev.op = "long" /\ ev.btn = ShiftButton
  /\ pc = "exiting"
  /\ layer = 1 /\ current_task /= None /\ prevent_sleep

\* C12: a press of a button the current layer does not map changes nothing
\* (task, layer, sleep flag, inhibitor, log files), sends no indicator
\* command, and the loop goes on with the link open.
Unmapped(l, b) == l \notin DOMAIN KEYMAP \/ b \notin DOMAIN KEYMAP[l]

C12_UnmappedPress ==
  [][(pc = "run" /\ ev'.op = "press" /\ Unmapped(layer, ev'.btn)) =>
       /\ UNCHANGED HostState
       /\ cmds' = <<>>
       /\ ev'.ok
       /\ pc' = "run" /\ ser' = "open"]_vars

C12_Witness ==
  /\ ev.op = "press" /\ Unmapped(layer, ev.btn)
  /\ pc = "run" /\ ser = "open"
  /\ layer = 1 /\ current_task /= None /\ prevent_sleep

\* C13: whenever the program stops because of the long press of the shift
\* button or an interrupt, in whichever session state, the active task is
\* stopped (STOP row appended, current_task None), the indicators are cleared
\* over the link if one is open, the link is closed, no inhibitor subprocess
\* is left running, and the program ends in an orderly way.
ShutdownStep == pc \in {"run", "exiting"} /\ ev'.op \in {"cleanup", "interrupt"}

C13_OrderlyShutdown ==
  [][ShutdownStep =>
       /\ current_task /= None =>
            AppendsTo(get_csv_filename(now), <<now', STOP>>)
       /\ current_task' = None
       /\ ser = "open" => (Has(cmds', LedAll(Off)) /\ ser' = "closed")
       /\ ser' /= "open"
       /\ live' = 0
       /\ pc' = "done"]_vars

\* C14: a "BTN:" line whose button field does not decode is dropped: nothing
\* changes, the session stays connected and the loop goes on.
C14_MalformedLine ==
  [][(pc = "run" /\ ev'.op = "malformed") =>
       /\ UNCHANGED HostState
       /\ ser' = "open"
       /\ pc' = "run"]_vars

\* C15: a write or flush that fails inside safe_send is swallowed: the pass
\* raises nothing, the session stays up, and the host state after the pass is
\* the one the same pass reaches, with nothing else failing, on a link that
\* carries every command.
OnSoundLink(H) ==
  /\ ~H.raised
  /\ layer' = H.layer
  /\ prevent_sleep' = H.prevent_sleep
  /\ caffeinate_proc' = H.caffeinate_proc
  /\ live' = H.live
  /\ current_task' = H.T.task
  /\ current_csv_file' = H.T.file
  /\ files' = H.T.files
  /\ ser' = H.ser
  /\ cmds' = H.cmds

C15_SendFailureSwallowed ==
  [][(pc \in {"run", "exiting"} /\ send_failed') =>
       /\ ev'.op \in {"press", "connect", "interrupt", "cleanup"}
       /\ ev'.ok
       /\ ev'.op = "press" =>
            /\ pc' = "run" /\ ser' = "open"
            /\ OnSoundLink(dispatch(CurrentHost, ev'.btn, now, now', TRUE, TRUE))
       /\ ev'.op = "connect" =>
            /\ pc' = "run" /\ ser' = "open"
            /\ OnSoundLink(resync([CurrentHost EXCEPT !.ser = "open"]))
       /\ ev'.op \in {"interrupt", "cleanup"} =>
            /\ pc' = "done"
            /\ OnSoundLink(cleanup(CurrentHost, now, now', TRUE))]_vars

C15_Witness ==
  /\ send_failed
  /\ ev.op = "press" /\ ev.btn = ShiftButton /\ ev.ok
  /\ layer = 1 /\ ser = "open" /\ pc = "run"
  /\ cmds = <<Led(7, Yellow)>>

\* C16: an I/O error on the serial link is never fatal: whether it strikes
\* while reading events, while probing candidates or while opening and
\* resetting the chosen port, the session is Disconnected afterwards and the
\* loop goes on to retry.
C16_TransportNeverFatal ==
  [][(pc = "run" /\ ev'.op \in {"read_error", "discovery_failed", "open_failed"}) =>
       /\ pc' = "run"
       /\ ser' = "none"]_vars

\* C17 (as claimed): the very first discovery of a run, when it fails, ends
\* the program; a discovery that fails after a session has been established
\* is retried.
C17_FatalAtStartup ==
  [][(pc = "run" /\ ev'.op = "discovery_failed") =>
       IF session_seen THEN pc' = "run" /\ ser' = "none"
       ELSE pc' \notin {"run", "exiting"}]_vars

\* C17 (amended): a failed discovery never ends the program, the first one of
\* a run no more than one made after a session: the loop stays Disconnected
\* with the host state unchanged and tries again.
C17_DiscoveryRetried ==
  [][(pc = "run" /\ ev'.op = "discovery_failed") =>
       /\ pc' = "run"
       /\ ser' = "none"
       /\ UNCHANGED HostState
       /\ cmds' = <<>>]_vars

C17_Witness ==
  /\ ev.op = "discovery_failed"
  /\ ~session_seen
  /\ pc = "run" /\ ser = "none"

\* C18: a disk error while a dispatched start_task / stop_task appends its
\* row is reported and the loop continues: the program stays alive and the
\* session stays connected (the link is not closed, no reconnect is started).
C18_DiskErrorSurfaces ==
  [][((PressStep("tracking_toggle") \/ PressStep("project")) /\ ~ev'.ok) =>
       /\ pc' = "run"
       /\ ser' = "open"]_vars

\* C19: show_today gives every non-STOP entry of today the time to the next
\* entry (to now for the last one), leaves STOP entries out of the entry list
\* and of the summary, sums the durations per label and over all entries,
\* and changes neither the tracker state nor any file.
SumOver(S, f(_)) ==
  LET RECURSIVE sum(_)
      sum(X) == IF X = {} THEN 0
                ELSE LET x == CHOOSE y \in X : TRUE
                     IN f(x) + sum(X \ {x})
  IN sum(S)

Derived(rows, t_end, R) ==
  LET n == Len(rows)
      Dur(i) == (IF i < n THEN rows[i + 1][1] ELSE t_end) - rows[i][1]
      Tasks == {i \in 1..n : rows[i][2] /= STOP}
      Index(k) == CHOOSE i \in Tasks : Cardinality({j \in Tasks : j < i}) = k - 1
  IN /\ Len(R.entries) = Cardinality(Tasks)
     /\ \A k \in 1..Len(R.entries) :
          /\ R.entries[k].label = rows[Index(k)][2]
          /\ R.entries[k].start = rows[Index(k)][1]
          /\ R.entries[k].duration = Dur(Index(k))
     /\ DOMAIN R.per_label = {rows[i][2] : i \in Tasks}
     /\ \A l \in DOMAIN R.per_label :
          R.per_label[l] = SumOver({i \in Tasks : rows[i][2] = l}, Dur)
     /\ R.total = SumOver(Tasks, Dur)

C19_Report ==
  [][PressStep("show_today") =>
       /\ Derived(Rows(files, date(now)), now', report')
       /\ UNCHANGED HostState
       /\ cmds' = <<>>]_vars

C19_Witness ==
  /\ ev.op = "press" /\ lookup(layer, ev.btn).action = "show_today"
  /\ LET rows == Rows(files, date(now))
     IN /\ Len(rows) = 3
        /\ rows[1][2] = rows[2][2] /\ rows[1][1] < rows[2][1]
        /\ rows[3][2] = STOP
  /\ Len(report.entries) = 2
  /\ report.total = 1

\* C20 (as claimed): in the summary the labels without a trailing number come
\* before the labels with one, those with a trailing number stand by that
\* number ascending, and the order depends on the set of labels only.
TrailingNumber(label) == label[Len(label)].digits

Reorderings(ls) ==
  {p \in [1..Len(ls) -> 1..Len(ls)] : \A i, j \in 1..Len(ls) : i /= j => p[i] /= p[j]}

C20_TrailingNumberOrder ==
  ev.op = "summary" =>
    /\ \A i, j \in 1..Len(summary) :
         i < j =>
           /\ ~(TrailingNumber(summary[i]) /\ ~TrailingNumber(summary[j]))
           /\ (TrailingNumber(summary[i]) /\ TrailingNumber(summary[j])) =>
                summary[i][Len(summary[i])].value <= summary[j][Len(summary[j])].value
    /\ \A p \in Reorderings(labels) :
         sorted([i \in 1..Len(labels) |-> labels[p[i]]]) = summary

\* C20 (amended): the summary lists every label once; labels holding no digit
\* come first, in string order; labels holding digits follow, by the first
\* number in them ascending, and labels with the same first number keep the
\* order in which the log first has them.  Project 10, Project 2, Support
\* come out as Support, Project 2, Project 10.
FirstNumber(label) ==
  label[CHOOSE i \in 1..Len(label) :
          label[i].digits /\ \A j \in 1..(i - 1) : ~label[j].digits].value

Position(ls, x) == CHOOSE i \in 1..Len(ls) : ls[i] = x

C20_FirstNumberOrder ==
  ev.op = "summary" =>
    /\ Len(summary) = Len(labels)
    /\ \A i \in 1..Len(labels) : \E j \in 1..Len(summary) : summary[j] = labels[i]
    /\ \A i, j \in 1..Len(summary) :
         i < j =>
           LET a == summary[i]
               b == summary[j]
           IN IF DigitRuns(a) = {}
              THEN DigitRuns(b) = {} => StrLess(a[1].text, b[1].text)
              ELSE /\ DigitRuns(b) /= {}
                   /\ FirstNumber(a) <= FirstNumber(b)
                   /\ FirstNumber(a) = FirstNumber(b) =>
                        Position(labels, a) < Position(labels, b)
    /\ labels = << <<Text("Project "), Digits(10)>>, <<Text("Project "), Digits(2)>>,
                   <<Text("Support")>> >>
         => summary = << <<Text("Support")>>, <<Text("Project "), Digits(2)>>,
                         <<Text("Project "), Digits(10)>> >>

C20_Witness ==
  /\ ev.op = "summary"
  /\ labels = << <<Text("Task "), Digits(2)>>,
                 <<Text("Q"), Digits(3), Text(" Project "), Digits(1)>>,
                 <<Text("Project "), Digits(2)>> >>
  /\ summary = << <<Text("Task "), Digits(2)>>, <<Text("Project "), Digits(2)>>,
                  <<Text("Q"), Digits(3), Text(" Project "), Digits(1)>> >>

\* C24: losing the link and reconnecting, with any number of attempts in
\* between, leaves what the host holds as it is: from the read error on, and
\* for as long as the run goes on without a link, no step changes the task,
\* the layer, the sleep flag, the inhibitor handle or count, or any log
\* file, the step that reconnects included.
C24_ReconnectKeepsState ==
  [][(pc = "run" /\ pc' = "run" /\ (ser = "none" \/ ev'.op = "read_error")) =>
       UNCHANGED HostState]_vars

C24_Witness ==
  /\ ev.op = "connect" /\ ser = "open" /\ pc = "run"
  /\ written /= {}
  /\ current_task /= None /\ layer = 1 /\ prevent_sleep /\ live = 1

\* C27: when the append inside start_task fails, the error reaches the caller
\* and current_task keeps the value it had before the call.
C27_StateUnchangedOnLogError ==
  [][(StartStep /\ ~ev'.ok) =>
       /\ current_task' = current_task
       /\ files' = files]_vars

\* C28: between two calls of a running program, the task a restart would
\* restore from the file of the current date is the task held in memory.
C28_RestartConsistency ==
  pc \in {"run", "exiting"} => TimeTrackerInit(files, now).task = current_task

\* C29: every row of the file named for date D carries a timestamp whose
\* date is D.
C29_FileDateConsistency ==
  \A d \in DOMAIN files : \A i \in 1..Len(files[d]) : date(files[d][i][1]) = d

\* C25: after a read error has taken the link down, a run that is not ended
\* (by the user or by a crash) has the link open again at some later point;
\* and the commands of a connect start with the one that clears all
\* indicators, every later one setting a single indicator to a colour.
C25_SessionLiveness ==
  /\ (ev.op = "read_error" /\ pc = "run") ~> (ser = "open" \/ pc /= "run")
  /\ [][(ser = "none" /\ ev'.op = "connect") =>
          /\ Len(cmds') >= 1
          /\ cmds'[1] = LedAll(Off)
          /\ \A i \in 2..Len(cmds') :
               cmds'[i] \in {Led(0, Green), Led(7, Yellow), Led(1, Blue)}]_vars

C25_Witness ==
  /\ ev.op = "connect" /\ ser = "open" /\ pc = "run"
  /\ current_task /= None /\ layer = 1
  /\ cmds = <<LedAll(Off), Led(0, Green), Led(7, Yellow)>>

\* C21: with a filter given, discover returns only a port whose name contains
\* the filter; it fails with "no device found" when no port in /dev matches
\* the filter, and with "all ports busy" when every open it tried was refused.
C21_FilterRestricts ==
  (probe.result /= NotCalled /\ probe.port_filter /= NoFilter) =>
    /\ \A p \in probe.result.found : Contains(probe.port_filter, p)
    /\ (\A p \in probe.ports : ~Contains(probe.port_filter, p)) =>
         probe.result.error = NoPico
    /\ (probe.result.tried /= <<>> /\ probe.result.found = {}) =>
         probe.result.error = NoFreePort

\* C22: two ports are in one group only if one physical device exposes both,
\* and when some group has exactly two ports discover returns only a port of
\* such a group and tries the highest-sorted candidate first.
C22_Grouping ==
  probe.result /= NotCalled =>
    LET considered == Filtered(probe.ports, probe.port_filter)
        pairs == PicoCandidates(considered)
    IN /\ \A p, q \in considered : GroupKey(p) = GroupKey(q) => p.device = q.device
       /\ pairs /= {} =>
            /\ probe.result.found \subseteq pairs
            /\ probe.result.tried /= <<>>
            /\ \A p \in pairs : p /= probe.result.tried[1] =>
                 NameLess(p, probe.result.tried[1])

\* C23: for every press of a button (from the pass that reads it pressed to
\* the pass that reads it released) the firmware sends BTN:<n>:LONG at most
\* once, and only in a pass at which the button has been read pressed without
\* a break for at least LONG_PRESS_DURATION; a release resets the detection, so
\* a later press held that long sends its own LONG.
C23_LongPressOnce ==
  \A i \in Pins :
    /\ pico.longs[i] <= 1
    /\ LinesOf(pico.out, i, TRUE) > 0 =>
         i \in pico.sampled /\ pico.held[i] >= LONG_PRESS_DURATION
    /\ i \notin pico.sampled => ~pico.long_sent[i] /\ pico.press_times[i] = 0
    /\ (i \in pico.sampled /\ pico.held[i] >= LONG_PRESS_DURATION) =>
         pico.longs[i] = 1

\* a second press of a button sends LONG after the first one did
C23_Witness ==
  \E i \in Pins :
    /\ LinesOf(pico.out, i, TRUE) = 1
    /\ i \in pico.relatched
    /\ pico.held[i] >= LONG_PRESS_DURATION

\* the firmware's side of C30: a press in progress has had exactly one BTN
\* line, sent by the pass that read the rising edge; a button read released
\* sends nothing; a LONG line comes in a later pass of a press that has had
\* its BTN line and no release since; every line names remap_button of its pin
FirmwareOrder ==
  /\ \A i \in Pins :
       /\ i \in pico.sampled => pico.shorts[i] = 1
       /\ i \notin pico.sampled =>
            LinesOf(pico.out, i, TRUE) + LinesOf(pico.out, i, FALSE) = 0
       /\ LinesOf(pico.out, i, TRUE) > 0 =>
            /\ i \in pico.sampled
            /\ pico.shorts[i] = 1
            /\ LinesOf(pico.out, i, FALSE) = 0
  /\ \A k \in 1..Len(pico.out) :
       pico.out[k].n = remap_button(pico, pico.out[k].pin)

\* the host has just taken a LONG line of the shift button as its order to exit
ShiftLongPress == ev.op = "long" /\ ev.btn = ShiftButton /\ pc = "exiting"

\* C30, as stated: the firmware sends one BTN line per rising edge, nothing on
\* release, and LONG only after the BTN line of the same press; hence when the
\* host handles a LongPress of the shift button it has already handled the
\* Press of that same press, which changed the layer.
C30_ShiftPressFirst ==
  /\ FirmwareOrder
  /\ ShiftLongPress => Press_of(pico.read) \in pico.flipped

\* C30, amended: the same order of the firmware's lines; on the host the
\* LongPress of the shift button follows the Press of the same press whenever
\* the BTN line of that press reached the host's input, and follows no Press
\* when that line was written with no session open, was dropped by the
\* reset_input_buffer of a new session, or failed to be written.
C30_EventOrder ==
  /\ FirmwareOrder
  /\ ShiftLongPress => Press_of(pico.read) \in pico.flipped \cup pico.lost
  /\ pico.flipped \cap pico.lost = {}

\* the ordinary case: the shift button held through one session
C30_Witness ==
  /\ ShiftLongPress
  /\ Press_of(pico.read) \in pico.flipped
  /\ pico.lost = {}

\* C26: a raw number already assigned is rejected, and the run then ends
\* without writing the key map; the key map file is written only after all
\* nine prompts were answered; a saved map takes nine distinct raw numbers
\* one-to-one onto 1..9, the k-th accepted press to k; a run ended by a
\* timeout or a duplicate exits with status 1.
C26_Calibration ==
  /\ \A i, j \in 1..Len(calib.pressed) :
       i /= j => calib.pressed[i] /= calib.pressed[j]
  /\ \A k \in 1..Len(calib.pressed) :
       calib.pressed[k] \in DOMAIN calib.key_map /\ calib.key_map[calib.pressed[k]] = k
  /\ calib.why \in {"duplicate", "timeout"} =>
       /\ calib.pc = "returned"
       /\ calib.exit = 1
       /\ ~calib.opened
       /\ Len(calib.pressed) < NumPrompts
  /\ calib.opened => Len(calib.pressed) = NumPrompts
  /\ calib.saved =>
       LET m == load_existing_key_map(calib.file)
       IN /\ calib.exit = 0
          /\ Cardinality(DOMAIN m) = NumPrompts
          /\ {m[r] : r \in DOMAIN m} = 1..NumPrompts
          /\ \A k \in 1..NumPrompts : m[calib.pressed[k]] = k

\* a keypad wired the other way round has been calibrated and its map saved
C26_Witness ==
  /\ calib.why = "saved"
  /\ calib.exit = 0
  /\ calib.file.exists
  /\ calib.file.lines[1] = <<1, 9>>
  /\ Len(calib.file.lines) = NumPrompts

\* C31: while the port is open, between two passes of the loop the state last
\* commanded for the tracking indicator (LED 0) is on iff a task is running,
\* for the layer indicator (LED 7) on iff layer = 1 and for the sleep
\* indicator (LED 1) on iff prevent_sleep, whatever events came before and
\* also for a task restored when the program started.
C31_IndicatorAgreement ==
  (pc \in {"run", "exiting"} /\ ser = "open") =>
    /\ "0" \in panel <=> Truthy(current_task)
    /\ "7" \in panel <=> layer = 1
    /\ "1" \in panel <=> prevent_sleep

\* a run that found a task in the log and restored it, with all three
\* indicators on after a shift and a prevent_sleep press
C31_Witness ==
  /\ pc = "run" /\ ser = "open"
  /\ written = {}
  /\ Truthy(current_task)
  /\ layer = 1
  /\ prevent_sleep
  /\ panel = Indicators
  /\ ev.op = "press"

\* C32: between two passes of the loop prevent_sleep is on iff a handle of the
\* inhibitor process is held, also after a press whose subprocess.Popen raised
\* OSError: such a press leaves neither the flag on without a process nor the
\* port closed.
C32_FlagHandleAgreement ==
  pc = "run" =>
    /\ prevent_sleep <=> caffeinate_proc /= None
    /\ (ev.op = "press" /\ lookup(layer, ev.btn).action = "prevent_sleep") =>
         ser = "open"

====
